---------------------------- MODULE Spec2Model ----------------------------
(***************************************************************************)
(* Corzz Optimizer Loader (CLI): a model of src/CorzzLoader_CLI.py.        *)
(*                                                                         *)
(* The program is a single-threaded console menu over five groups of       *)
(* operations: the power plan (powercfg + state_cli.ini), the startup      *)
(* registry keys, the temp cleaner, three benchmarks and the menu loop     *)
(* itself.  Each group has its own specification over its own variables;   *)
(* the other groups' variables are pinned.  SpecMenu drives the power and  *)
(* registry operations through the menus.                                  *)
(*                                                                         *)
(* Text (command output, the state file) is a sequence of tokens; a token  *)
(* is a string.  None is Python's None.                                    *)
(***************************************************************************)
EXTENDS Integers, Sequences, FiniteSets, TLC

VARIABLES
    active,         \* the OS's active power scheme (a GUID)
    ultimateListed, \* whether powercfg /list shows the Ultimate GUID
    stateFile,      \* STATE_PATH: [exists, text]
    calls,          \* the last two power calls, oldest first (history)
    reg,            \* the registry: reg[hive][key] = [exists, vals]
    visualFx,       \* VisualFXSetting under HKCU ...\Explorer\VisualEffects
    regLast,        \* the last registry call (history)
    fs,             \* the files under the temp directories: fs[f] = [loc, mtime, size, present]
    subdirs,        \* the subdirectories that exist under the temp directories
    cleanLast,      \* the last clean_temp call (history)
    tmpFile,        \* whether corzz_bench.tmp exists in the temp directory
    benchLast,      \* the last benchmark call (history)
    loc,            \* where the program is: the prompt it waits at, or how it ended
    prevLoc,        \* where it was before its last step (history)
    lastInput,      \* what the user typed at prevLoc (history)
    env,            \* [logDirOk, windows, isAdmin]: the log directory can be created,
                    \* os.name is "nt", the user is elevated
    items,          \* menu_startup's items
    pick,           \* menu_startup's c at the "Item # :" prompt
    cleanArgs       \* menu_cleaner's days_i and inc_sys

powerVars == <<active, ultimateListed, stateFile, calls>>
regVars   == <<reg, visualFx, regLast>>
cleanVars == <<fs, subdirs, cleanLast>>
benchVars == <<tmpFile, benchLast>>
menuVars  == <<loc, prevLoc, lastInput, env, items, pick, cleanArgs>>

None == "None"

(***************************************************************************)
(* Power plan                                                              *)
(***************************************************************************)
POWER_ULTIMATE_GUID == "e9a42b02-d5df-448d-aa00-03f14749eb61"
BALANCED_GUID       == "381b4222-f694-41f0-9685-ff5bb260df2e"
HIGHPERF_GUID       == "8c5e7fda-e8bf-4a96-9a85-a6e23a8c635c"
\* a scheme that a stale state file names and that is no longer installed
REMOVED_GUID        == "a1841308-3541-4fab-bc81-f71556f20b4a"

\* Strings that the pattern [a-fA-F0-9\-]{36} matches.
GuidTokens == {POWER_ULTIMATE_GUID, BALANCED_GUID, HIGHPERF_GUID, REMOVED_GUID}

\* Schemes powercfg can activate in the current state.
Installed(listed) ==
    {BALANCED_GUID, HIGHPERF_GUID} \cup (IF listed THEN {POWER_ULTIMATE_GUID} ELSE {})

Whitespace == {" ", "  "}

\* Python truthiness of an Optional[str].
Truthy(s) == s # None /\ s # ""

\* What the external command can do: run and exit 0, run and exit non-zero
\* (or time out, or fail to launch: run() maps all three to rc 1), print
\* nothing, or print a localized line without the "GUID:" label.
QueryModes == {"ok", "fail", "empty", "localized"}

\* run(["powercfg", "/getactivescheme"]): [rc, out].
PowercfgGetActive(act, mode) ==
    CASE mode = "ok"        -> [rc |-> 0, out |-> <<"Power Scheme ", "GUID:", " ", act, "  ", "(name)", "\n">>]
      [] mode = "localized" -> [rc |-> 0, out |-> <<"GUID des Energieschemas:", " ", act, "  ", "(name)", "\n">>]
      [] mode = "empty"     -> [rc |-> 0, out |-> <<>>]
      [] OTHER              -> [rc |-> 1, out |-> <<>>]

\* Index of the first non-whitespace token of text at or after i (Len+1 if none).
RECURSIVE SkipSpace(_, _)
SkipSpace(text, i) ==
    IF i > Len(text) THEN i
    ELSE IF text[i] \in Whitespace THEN SkipSpace(text, i + 1)
    ELSE i

\* re.search(r"GUID:\s*([a-fA-F0-9\-]{36})", out): the leftmost match's group 1.
RECURSIVE ReSearchGuid(_, _)
ReSearchGuid(text, i) ==
    IF i > Len(text) THEN None
    ELSE LET j == SkipSpace(text, i + 1)
         IN IF text[i] = "GUID:" /\ j <= Len(text) /\ text[j] \in GuidTokens
            THEN text[j]
            ELSE ReSearchGuid(text, i + 1)

get_active_power_scheme_guid(act, mode) ==
    LET r == PowercfgGetActive(act, mode)
    IN IF r.rc = 0 /\ r.out # <<>> THEN ReSearchGuid(r.out, 1) ELSE None

\* f"previous_scheme={prev}\n"
FormatStateBug(prev) == <<"previous_scheme", "=", POWER_ULTIMATE_GUID, "\n">>
FormatState(prev) == <<"previous_scheme", "=", prev, "\n">>

\* str.splitlines()
RECURSIVE SplitLines(_, _, _)
SplitLines(text, i, cur) ==
    IF i > Len(text) THEN (IF cur = <<>> THEN <<>> ELSE <<cur>>)
    ELSE IF text[i] = "\n" THEN <<cur>> \o SplitLines(text, i + 1, <<>>)
    ELSE SplitLines(text, i + 1, Append(cur, text[i]))

\* str.strip() on a token sequence
RECURSIVE Strip(_)
Strip(s) ==
    IF s = <<>> THEN s
    ELSE IF Head(s) \in Whitespace THEN Strip(Tail(s))
    ELSE IF s[Len(s)] \in Whitespace THEN Strip(SubSeq(s, 1, Len(s) - 1))
    ELSE s

\* The string a token sequence spells; more than one token is no GUID.
Join(s) == IF s = <<>> THEN "" ELSE IF Len(s) = 1 THEN s[1] ELSE "garbage"

\* line.startswith("previous_scheme=")
StartsWithKey(line) == Len(line) >= 2 /\ line[1] = "previous_scheme" /\ line[2] = "="

\* The loop of restore_power over the lines: the last matching line wins.
RECURSIVE ParsePrev(_, _, _)
ParsePrev(lines, i, prev) ==
    IF i > Len(lines) THEN prev
    ELSE ParsePrev(lines, i + 1,
                   IF StartsWithKey(lines[i])
                   THEN Join(Strip(SubSeq(lines[i], 3, Len(lines[i]))))
                   ELSE prev)

\* restore_power up to the test of prev (the exists() test and the loop over
\* the lines): None when there is no file.
ReadPrevBug(file) ==
    IF ~file.exists THEN BALANCED_GUID
    ELSE ParsePrev(SplitLines(file.text, 1, <<>>), 1, None)
ReadPrev(file) ==
    IF ~file.exists THEN None
    ELSE ParsePrev(SplitLines(file.text, 1, <<>>), 1, None)

\* run(["powercfg", "/setactive", g]): the scheme active afterwards and rc.
\* cmdOk is the command launching and not timing out.
PowercfgSetActive(act, listed, g, cmdOk) ==
    IF cmdOk /\ g \in Installed(listed)
    THEN [active |-> g, rc |-> 0]
    ELSE [active |-> act, rc |-> 1]

AbsentFile == [exists |-> FALSE, text |-> <<>>]

\* Keep the last two calls.
Remember(rec) == IF Len(calls) < 2 THEN Append(calls, rec) ELSE <<calls[2], rec>>

\* STATE_PATH.write_text(text) inside try/except: the file afterwards.  The
\* write succeeds ("ok"), the open fails and the file is as before ("denied"),
\* or the open truncates and the write fails ("truncated").
WriteModes == {"ok", "denied", "truncated"}

WriteText(file, text, wmode) ==
    CASE wmode = "ok"        -> [exists |-> TRUE, text |-> text]
      [] wmode = "truncated" -> [exists |-> TRUE, text |-> <<>>]
      [] OTHER               -> file

\* enable_ultimate(): [active, listed, file, saved, ret] afterwards.
\* listOk/dupOk/actOk are the three commands running, mode the query's
\* outcome, wmode the state file write's outcome; saved is the state file
\* now holding the scheme that was active.
EnableResult(act, listed0, file0, listOk, dupOk, mode, wmode, actOk) ==
    LET found  == listOk /\ listed0
        listed == IF found THEN listed0 ELSE (listed0 \/ dupOk)
        prev   == get_active_power_scheme_guid(act, mode)
        r      == PowercfgSetActive(act, listed, POWER_ULTIMATE_GUID, actOk)
    IN [active |-> r.active,
        listed |-> listed,
        file   |-> IF Truthy(prev) THEN WriteText(file0, FormatState(prev), wmode) ELSE file0,
        saved  |-> Truthy(prev) /\ wmode = "ok",
        issued |-> {POWER_ULTIMATE_GUID},
        ret    |-> (r.rc = 0)]

\* restore_power(): [active, issued, ret] afterwards.  readOk is exists() and
\* read_text() succeeding (an exception is caught and False returned).
RestoreResult(act, listed0, file0, readOk, actOk) ==
    LET prev == IF readOk THEN ReadPrev(file0) ELSE None
        go   == readOk /\ Truthy(prev)
        r    == IF go THEN PowercfgSetActive(act, listed0, prev, actOk)
                ELSE [active |-> act, rc |-> 1]
    IN [active |-> r.active,
        issued |-> IF go THEN {prev} ELSE {},
        ret    |-> (go /\ r.rc = 0)]

enable_ultimate(listOk, dupOk, mode, wmode, actOk) ==
    \E r \in {EnableResult(active, ultimateListed, stateFile, listOk, dupOk, mode, wmode, actOk)} :
       /\ ultimateListed' = r.listed
       /\ stateFile' = r.file
       /\ active' = r.active
       /\ calls' = Remember([fn |-> "enable", pre |-> active, preFile |-> stateFile,
                             saved |-> r.saved, issued |-> r.issued, ret |-> r.ret])

restore_power(readOk, actOk) ==
    \E r \in {RestoreResult(active, ultimateListed, stateFile, readOk, actOk)} :
       /\ active' = r.active
       /\ calls' = Remember([fn |-> "restore", pre |-> active, preFile |-> stateFile,
                             saved |-> FALSE, issued |-> r.issued, ret |-> r.ret])
       /\ UNCHANGED <<ultimateListed, stateFile>>

PriorFiles ==
    {AbsentFile} \cup {[exists |-> TRUE, text |-> <<"previous_scheme", "=", g, "\n">>] : g \in GuidTokens}
                 \cup {[exists |-> TRUE, text |-> <<>>]}

PowerInit ==
    /\ ultimateListed \in BOOLEAN
    /\ active \in Installed(ultimateListed)
    /\ stateFile \in PriorFiles
    /\ calls = <<>>

EnableUltimate ==
    \E listOk, dupOk, actOk \in BOOLEAN : \E mode \in QueryModes, wmode \in WriteModes :
        enable_ultimate(listOk, dupOk, mode, wmode, actOk)

RestorePower ==
    \E readOk, actOk \in BOOLEAN : restore_power(readOk, actOk)

(***************************************************************************)
(* Startup manager and visual effects (winreg)                             *)
(***************************************************************************)
Hives == {"HKCU", "HKLM"}
\* base and backup of toggle_startup
RunKey    == "Run"
ShadowKey == "Run_Disabled_By_Corzz"
Keys      == {RunKey, ShadowKey}

\* Value names in EnumValue order, value data and value types of the model.
NameSeq == <<"OneDrive", "Steam">>
Names   == {NameSeq[i] : i \in 1..Len(NameSeq)}
Entries == {[data |-> "a.exe", type |-> "REG_SZ"],
            [data |-> "%AppData%\\b.exe", type |-> "REG_EXPAND_SZ"]}
NoValue == [data |-> None, type |-> None]

\* The most values the registry holds initially.
MaxEntries == 2

MissingKey == [exists |-> FALSE, vals |-> [n \in Names |-> NoValue]]
KeyStates  == {MissingKey} \cup
              {[exists |-> TRUE, vals |-> v] : v \in [Names -> Entries \cup {NoValue}]}

Populated(r) ==
    Cardinality({c \in Hives \X Keys \X Names : r[c[1]][c[2]].vals[c[3]] # NoValue})

\* Where a call stops: the step at which access is denied and the winreg call
\* raises PermissionError, or "none" when every step runs.  A process killed
\* just before that step leaves the registry in the same state.
ToggleStops == {"open", "create", "set", "reopen", "delete", "none"}

\* Line 254, CreateKey(hive, dst), has run.
KeyCreated(stop) == stop \notin {"open", "create"}
\* Line 255, SetValueEx(dst_key, name, 0, vtype, value), has run.
ValueWritten(stop) == stop \notin {"open", "create", "set"}
\* Line 256, DeleteValue(OpenKey(hive, src, 0, KEY_SET_VALUE), name), has run.
ValueDeletedFirst(stop) == stop # "open"
ValueDeleted(stop) == stop = "none"

\* What SetValueEx stores for the (value, vtype) that QueryValueEx returned.
WrittenEntryBug(value, vtype) == [data |-> value, type |-> "REG_SZ"]
WrittenEntry(value, vtype) == [data |-> value, type |-> vtype]

\* toggle_startup(name, hive_str, disable): [reg, ret, entry].  ret is "True",
\* "False" or "raised" (an exception leaves the function); entry is the
\* (value, vtype) read from the source key, over what the destination key held
\* under the name before the call.
ToggleResult(r, name, hive_str, disable, stop) ==
    LET hive == IF hive_str = "HKCU" THEN "HKCU" ELSE "HKLM"
        src  == IF disable = FALSE THEN ShadowKey ELSE RunKey
        dst  == IF disable = FALSE THEN RunKey ELSE ShadowKey
        e    == r[hive][src].vals[name]
    IN IF ~r[hive][src].exists
       THEN [reg |-> r, ret |-> "False", entry |-> NoValue, over |-> NoValue]
       ELSE IF stop = "open"
       THEN [reg |-> r, ret |-> "raised", entry |-> NoValue, over |-> NoValue]
       ELSE IF e = NoValue
       THEN [reg |-> r, ret |-> "False", entry |-> NoValue, over |-> NoValue]
       ELSE LET dstKey ==
                  [exists |-> r[hive][dst].exists \/ KeyCreated(stop),
                   vals   |-> IF ValueWritten(stop)
                              THEN [r[hive][dst].vals EXCEPT ![name] = WrittenEntry(e.data, e.type)]
                              ELSE r[hive][dst].vals]
                srcKey ==
                  [exists |-> TRUE,
                   vals   |-> IF ValueDeleted(stop)
                              THEN [r[hive][src].vals EXCEPT ![name] = NoValue]
                              ELSE r[hive][src].vals]
            IN [reg   |-> [r EXCEPT ![hive] = [k \in Keys |-> IF k = dst THEN dstKey ELSE srcKey]],
                ret   |-> IF stop = "none" THEN "True" ELSE "raised",
                entry |-> e,
                over  |-> r[hive][dst].vals[name]]

\* The EnumValue loop over one open key: (tag, path, name, value) per value.
RECURSIVE EnumValues(_, _, _)
EnumValues(r, hive, i) ==
    IF i > Len(NameSeq) THEN <<>>
    ELSE (IF r[hive][RunKey].vals[NameSeq[i]] # NoValue
          THEN << <<hive, RunKey, NameSeq[i], r[hive][RunKey].vals[NameSeq[i]].data>> >>
          ELSE <<>>) \o EnumValues(r, hive, i + 1)

\* One hive of list_startup_items: a missing key is skipped.
HiveItems(r, hive) == IF r[hive][RunKey].exists THEN EnumValues(r, hive, 1) ELSE <<>>

\* list_startup_items(): [ret, items]; denied is the set of hives whose Run
\* key, when it exists, cannot be opened for lack of access (PermissionError,
\* which "except FileNotFoundError" does not catch).
ListResult(r, denied) ==
    IF \E h \in denied : r[h][RunKey].exists
    THEN [ret |-> "raised", items |-> <<>>]
    ELSE [ret |-> "True", items |-> HiveItems(r, "HKCU") \o HiveItems(r, "HKLM")]

NoCall == [fn |-> "none", hive |-> None, name |-> None, disable |-> FALSE,
           stop |-> "none", ret |-> "True", entry |-> NoValue, over |-> NoValue,
           orig |-> NoValue, prior |-> NoValue, items |-> <<>>, denied |-> {}]

\* The previous call was toggle_startup(name, hive_str, disable=True) and
\* returned True.
JustDisabled(name, hive_str) ==
    /\ regLast.fn = "toggle" /\ regLast.disable /\ regLast.ret = "True"
    /\ regLast.hive = hive_str /\ regLast.name = name

\* stop: the step at which the call raised, "none" when it returned; orig: the
\* entry a preceding successful disable of the same name moved, and prior:
\* what the shadow key held under the name before that disable.
toggle_startup(name, hive_str, disable, stop) ==
    \E t \in {ToggleResult(reg, name, hive_str, disable, stop)} :
    \E rt \in {~disable /\ JustDisabled(name, hive_str)} :
       /\ reg' = t.reg
       /\ regLast' = [NoCall EXCEPT !.fn = "toggle", !.hive = hive_str, !.name = name,
                                    !.disable = disable, !.ret = t.ret,
                                    !.stop = IF t.ret = "raised" THEN stop ELSE "none",
                                    !.entry = t.entry, !.over = t.over,
                                    !.orig = IF rt THEN regLast.entry ELSE NoValue,
                                    !.prior = IF rt THEN regLast.over ELSE NoValue]
       /\ UNCHANGED visualFx

list_startup_items(denied) ==
    \E l \in {ListResult(reg, denied)} :
       /\ regLast' = [NoCall EXCEPT !.fn = "list", !.ret = l.ret, !.items = l.items,
                                    !.denied = denied]
       /\ UNCHANGED <<reg, visualFx>>

\* set_visual_fx_best_performance(): every exception is caught.
set_visual_fx_best_performance(ok) ==
    /\ visualFx' = IF ok THEN 2 ELSE visualFx
    /\ regLast' = [NoCall EXCEPT !.fn = "visualfx", !.ret = IF ok THEN "True" ELSE "False"]
    /\ UNCHANGED reg

RegInit ==
    /\ reg \in {r \in [Hives -> [Keys -> KeyStates]] : Populated(r) <= MaxEntries}
    /\ visualFx = 0
    /\ regLast = NoCall

ToggleStartup ==
    \E name \in Names, hive_str \in Hives, disable \in BOOLEAN, stop \in ToggleStops :
        toggle_startup(name, hive_str, disable, stop)

ListStartupItems == \E denied \in SUBSET Hives : list_startup_items(denied)

SetVisualFx == \E ok \in BOOLEAN : set_visual_fx_best_performance(ok)

(***************************************************************************)
(* Temp cleaner                                                            *)
(***************************************************************************)
SecondsPerDay == 86400

\* The most files under the temp directories, and the largest older_days.
MaxFiles == 2
MaxDays  == 2

Files == 1..MaxFiles
Days  == 0..MaxDays

\* Directories.  TEMP is %LOCALAPPDATA%\Temp by default, so targets[1] and
\* targets[2] name the same directory and it is walked twice.
LocalTemp   == "AppData/Local/Temp"
LocalSub    == "AppData/Local/Temp/sub"
WindowsTemp == "C:/Windows/Temp"
Prefetch    == "C:/Windows/Prefetch"
Locs        == {LocalTemp, LocalSub, WindowsTemp, Prefetch}

\* The clock and the modification times, in seconds since the epoch.
Nows   == {2 * SecondsPerDay, 2 * SecondsPerDay + 1}
MTimes == {SecondsPerDay, SecondsPerDay + 1}

\* st_size of file f.
SizeOf(f) == 2 * f + 1

\* How the deletion of one file can fail: stat, os.chmod or unlink raising.
FailModes == {"none", "stat", "chmod", "unlink"}

\* targets: the list clean_temp builds.
Targets(include_system, aggressive) ==
    <<LocalTemp, LocalTemp>> \o (IF include_system THEN <<WindowsTemp>> ELSE <<>>)
                             \o (IF aggressive THEN <<Prefetch>> ELSE <<>>)

\* cutoff = time.time() - older_days*86400 if older_days else None
Cutoff(now, older_days) ==
    IF older_days # 0 THEN [none |-> FALSE, val |-> now - older_days * SecondsPerDay]
    ELSE [none |-> TRUE, val |-> 0]

\* Python truthiness of cutoff: None and 0.0 are false.
CutoffTruthy(cutoff) == ~cutoff.none /\ cutoff.val # 0

\* The try block for one file: "new" (continue at line 147), "deleted", or
\* "error" (an exception raised at line 146, 148, 149 or 150).
FileBody(file, cutoff, fail) ==
    IF CutoffTruthy(cutoff) /\ fail = "stat" THEN "error"
    ELSE IF CutoffTruthy(cutoff) /\ file.mtime > cutoff.val THEN "new"
    ELSE IF fail \in {"stat", "chmod", "unlink"} THEN "error"
    ELSE "deleted"

\* The file reached line 148: its deletion was attempted.
Attempted(file, cutoff, fail) ==
    ~(CutoffTruthy(cutoff) /\ (fail = "stat" \/ file.mtime > cutoff.val))

\* "except Exception: continue": what leaves the loop body.
HandlerPropagates(outcome) == IF outcome = "error" THEN "raise" ELSE outcome
Handler(outcome) == IF outcome = "error" THEN "continue" ELSE outcome

\* What one file adds to freed: sz is added after unlink returned.
FreedByCountedFirst(file, outcome, fail) == IF fail # "stat" /\ outcome # "new" THEN file.size ELSE 0
FreedBy(file, outcome, fail) == IF outcome = "deleted" THEN file.size ELSE 0

\* The state of the walk after file f left its loop body with out.  st is
\* [fs, freed, deleted, attempted, subdirs, raised].
AfterFile(st, f, out, cutoff, fail) ==
    [fs        |-> IF out = "deleted" THEN [st.fs EXCEPT ![f].present = FALSE] ELSE st.fs,
     freed     |-> st.freed + FreedBy(st.fs[f], out, fail[f]),
     deleted   |-> IF out = "deleted" THEN st.deleted \cup {f} ELSE st.deleted,
     attempted |-> IF Attempted(st.fs[f], cutoff, fail[f])
                   THEN st.attempted \cup {f} ELSE st.attempted,
     subdirs   |-> st.subdirs,
     raised    |-> out = "raise"]

\* The files loop of one walked directory, from file f on.
RECURSIVE CleanFiles(_, _, _, _, _)
CleanFiles(st, dir, f, cutoff, fail) ==
    IF f > MaxFiles \/ st.raised THEN st
    ELSE IF ~st.fs[f].present \/ st.fs[f].loc # dir
    THEN CleanFiles(st, dir, f + 1, cutoff, fail)
    ELSE CleanFiles(AfterFile(st, f, Handler(FileBody(st.fs[f], cutoff, fail[f])), cutoff, fail),
                    dir, f + 1, cutoff, fail)

\* os.walk(d, topdown=False) over one target: the subdirectory's files, then
\* the target's own files, then rmdir of the subdirectory (it fails on a
\* directory that is not empty, and the failure is passed over).
Rmdir(st, dp) ==
    IF ~st.raised /\ \A f \in Files : ~(st.fs[f].present /\ st.fs[f].loc = dp)
    THEN [st EXCEPT !.subdirs = st.subdirs \ {dp}]
    ELSE st

WalkTarget(st, d, cutoff, fail) ==
    IF d = LocalTemp /\ LocalSub \in st.subdirs
    THEN Rmdir(CleanFiles(CleanFiles(st, LocalSub, 1, cutoff, fail), LocalTemp, 1, cutoff, fail), LocalSub)
    ELSE CleanFiles(st, d, 1, cutoff, fail)

\* The loop over targets, from index i on.
RECURSIVE WalkTargets(_, _, _, _, _)
WalkTargets(st, targets, i, cutoff, fail) ==
    IF i > Len(targets) \/ st.raised THEN st
    ELSE WalkTargets(WalkTarget(st, targets[i], cutoff, fail),
                     targets, i + 1, cutoff, fail)

NoClean == [fn |-> "none", now |-> 0, older_days |-> 0, include_system |-> FALSE,
            aggressive |-> FALSE, fail |-> [f \in Files |-> "none"], before |-> {},
            freed |-> 0, deleted |-> {}, attempted |-> {}, raised |-> FALSE]

\* clean_temp(include_system, aggressive, older_days) at clock time now;
\* fail[f] is how the deletion of file f fails.  before: the files under the
\* target directories when the call starts.
clean_temp(include_system, aggressive, older_days, now, fail) ==
    LET targets == Targets(include_system, aggressive)
        cutoff  == Cutoff(now, older_days)
        st0     == [fs |-> fs, freed |-> 0, deleted |-> {}, attempted |-> {},
                    subdirs |-> subdirs, raised |-> FALSE]
        walked  == {targets[i] : i \in 1..Len(targets)} \cup
                   (IF LocalSub \in subdirs THEN {LocalSub} ELSE {})
    IN \E st \in {WalkTargets(st0, targets, 1, cutoff, fail)} :
       /\ fs' = st.fs
       /\ subdirs' = st.subdirs
       /\ cleanLast' = [fn |-> "clean", now |-> now, older_days |-> older_days,
                        include_system |-> include_system, aggressive |-> aggressive,
                        fail |-> fail,
                        before |-> {f \in Files : fs[f].present /\ fs[f].loc \in walked},
                        freed |-> st.freed, deleted |-> st.deleted,
                        attempted |-> st.attempted, raised |-> st.raised]

NoFile == [loc |-> LocalTemp, mtime |-> 1, size |-> 0, present |-> FALSE]

CleanInit ==
    /\ subdirs \in {{}, {LocalSub}}
    /\ fs \in [Files -> {NoFile} \cup
                        [loc : Locs, mtime : MTimes, size : {SizeOf(f) : f \in Files}, present : {TRUE}]]
    /\ \A f \in Files : fs[f].present =>
          /\ fs[f].size = SizeOf(f)
          /\ fs[f].loc # LocalSub \/ LocalSub \in subdirs
    /\ cleanLast = NoClean

\* One call from each file system.
CleanTemp ==
    /\ cleanLast.fn = "none"
    /\ \E include_system, aggressive \in BOOLEAN, older_days \in Days, now \in Nows,
          fail \in [Files -> FailModes] :
        clean_temp(include_system, aggressive, older_days, now, fail)

(***************************************************************************)
(* Benchmarks                                                              *)
(***************************************************************************)
\* The largest workload size (size_mb, n) and the largest elapsed time, in
\* ticks of the clock behind time.time().
MaxWork  == 4
MaxTicks == 2

Work    == 1..MaxWork
Elapsed == 0..MaxTicks

\* A rate is the quotient num/den; a division by zero raises ZeroDivisionError.
Rate(num, den) ==
    IF den = 0 THEN [raised |-> TRUE, num |-> 0, den |-> 1]
    ELSE [raised |-> FALSE, num |-> num, den |-> den]

\* Where the file I/O of bench_disk fails.
DiskFails == {"none", "open_w", "write", "open_r", "read", "unlink"}

\* Whether corzz_bench.tmp exists when bench_disk is left: an open for
\* writing that fails creates nothing, a later failure leaves the function
\* before unlink, and a failed unlink is passed over.
TmpAfter(tmp, failAt) ==
    CASE failAt = "none"   -> FALSE
      [] failAt = "open_w" -> tmp
      [] OTHER             -> TRUE

\* bench_disk(size_mb) with measured write time wt and read time rt:
\* (size_mb/wt + size_mb/rt)/2.0 = size_mb*(wt+rt) / (2*wt*rt).
BenchDisk(size_mb, failAt, wt, rt) ==
    IF failAt \in {"open_w", "write", "open_r", "read"}
    THEN [raised |-> TRUE, num |-> 0, den |-> 1]
    ELSE Rate(size_mb * (wt + rt), 2 * wt * rt)

\* bench_mem(size_mb): size_mb/elapsed.
BenchMem(size_mb, elapsed) == Rate(size_mb, elapsed)

\* The while loop of bench_cpu: trial division of i by j, j+1, ... while j*j <= i.
RECURSIVE IsPrimeFrom(_, _)
IsPrimeFrom(i, j) ==
    IF j * j > i THEN TRUE
    ELSE IF i % j = 0 THEN FALSE
    ELSE IsPrimeFrom(i, j + 1)

\* The for loop of bench_cpu: the primes among i, ..., n-1.
RECURSIVE CountPrimes(_, _)
CountPrimes(i, n) ==
    IF i >= n THEN 0
    ELSE (IF IsPrimeFrom(i, 2) THEN 1 ELSE 0) + CountPrimes(i + 1, n)

\* bench_cpu(n): count/elapsed.
BenchCpu(n, elapsed) == Rate(CountPrimes(2, n), elapsed)

NoBench == [fn |-> "none", size |-> 0, failAt |-> "none", wt |-> 0, rt |-> 0,
            raised |-> FALSE, num |-> 0, den |-> 1]

bench_disk(size_mb, failAt, wt, rt) ==
    \E r \in {BenchDisk(size_mb, failAt, wt, rt)} :
       /\ tmpFile' = TmpAfter(tmpFile, failAt)
       /\ benchLast' = [fn |-> "disk", size |-> size_mb, failAt |-> failAt,
                        wt |-> wt, rt |-> rt, raised |-> r.raised, num |-> r.num, den |-> r.den]

bench_mem(size_mb, elapsed) ==
    \E r \in {BenchMem(size_mb, elapsed)} :
       /\ benchLast' = [fn |-> "mem", size |-> size_mb, failAt |-> "none",
                        wt |-> elapsed, rt |-> 0, raised |-> r.raised, num |-> r.num, den |-> r.den]
       /\ UNCHANGED tmpFile

bench_cpu(n, elapsed) ==
    \E r \in {BenchCpu(n, elapsed)} :
       /\ benchLast' = [fn |-> "cpu", size |-> n, failAt |-> "none",
                        wt |-> elapsed, rt |-> 0, raised |-> r.raised, num |-> r.num, den |-> r.den]
       /\ UNCHANGED tmpFile

BenchInit == tmpFile = FALSE /\ benchLast = NoBench

BenchDiskCall ==
    \E size_mb \in Work, failAt \in DiskFails, wt, rt \in Elapsed :
        bench_disk(size_mb, failAt, wt, rt)
BenchMemCall == \E size_mb \in Work, elapsed \in Elapsed : bench_mem(size_mb, elapsed)
BenchCpuCall == \E n \in Work, elapsed \in Elapsed : bench_cpu(n, elapsed)

\* The other groups at rest.
PowerIdle ==
    /\ active = BALANCED_GUID /\ ultimateListed = FALSE
    /\ stateFile = AbsentFile /\ calls = <<>>
RegIdle ==
    /\ reg = [h \in Hives |-> [k \in Keys |-> MissingKey]]
    /\ visualFx = 0 /\ regLast = NoCall
CleanIdle ==
    /\ fs = [f \in Files |-> NoFile] /\ subdirs = {} /\ cleanLast = NoClean
BenchIdle == BenchInit

(***************************************************************************)
(* Menus.  A step runs the program from one input() to the next: the user's *)
(* line, the function calls it leads to, and the next prompt.  The          *)
(* functions act on the power plan, the registry, the temp files and the    *)
(* benchmark file as above; the call histories are not kept here.           *)
(***************************************************************************)
DefaultDays == 7

\* int(text): the console lines of the model that are integers.
IntTokens == {"-1", "0", "1", "2", "3"}
IntOf(tok) ==
    CASE tok = "-1" -> 0 - 1
      [] tok = "0"  -> 0
      [] tok = "1"  -> 1
      [] tok = "2"  -> 2
      [] OTHER      -> 3

\* str.lower() on the letters the prompts ask for.
Lower(line) ==
    CASE line = "A" -> "a"
      [] line = "B" -> "b"
      [] line = "Y" -> "y"
      [] line = "N" -> "n"
      [] OTHER      -> line

\* days = input(...).strip() or "7"; int(days), 7 on ValueError.
ParseDays(line) ==
    IF line = "" THEN DefaultDays
    ELSE IF line \in IntTokens THEN IntOf(line)
    ELSE DefaultDays

\* items[num-1] with Python's indexing: [ok, item]; an index below -len or
\* from len on raises IndexError.
PyIndex(seq, k) ==
    IF k >= 0 /\ k < Len(seq) THEN [ok |-> TRUE, item |-> seq[k + 1]]
    ELSE IF k < 0 /\ k >= 0 - Len(seq) THEN [ok |-> TRUE, item |-> seq[Len(seq) + k + 1]]
    ELSE [ok |-> FALSE, item |-> <<>>]

Prompts == {"main", "tweaks", "tweaks_pause", "cleaner_days", "cleaner_sys",
            "cleaner_aggr", "cleaner_pause", "bench_pause", "startup",
            "startup_item", "startup_pause", "startup_empty_pause", "power",
            "power_pause", "log_pause"}
\* exited: main() returned; interrupted: KeyboardInterrupt; fatal: another
\* exception reached the handler at the bottom of the file, which logs it
\* and ends the program; import_error: an exception while the module was
\* loading, before main() and its handler.
Ended == {"exited", "interrupted", "fatal", "import_error"}

NoArgs == [days_i |-> 0, inc_sys |-> FALSE]

\* A step from the current prompt on the line typed, to the next place.
Go(line, to) == loc' = to /\ prevLoc' = loc /\ lastInput' = line
KeepLocals == UNCHANGED <<env, items, pick, cleanArgs>>
KeepSystem == UNCHANGED <<powerVars, regVars, cleanVars, benchVars>>

\* Lines 16-20 and main(): LOG_DIR.mkdir() runs while the module loads,
\* outside every try; then the elevation test.
Startup ==
    /\ loc = "import"
    /\ Go("", IF ~env.logDirOk THEN "import_error"
              ELSE IF ~env.windows THEN "exited"
              ELSE IF ~env.isAdmin THEN "exited"
              ELSE "main")
    /\ KeepLocals /\ KeepSystem

\* Where menu_tweaks goes after pause().
TweaksAfterPauseReturns == "main"
TweaksAfterPause == "tweaks"

\* The head of menu_startup's loop: list the items; none ends the menu.
StartupHead(line) ==
    \E denied \in SUBSET Hives : \E l \in {ListResult(reg, denied)} :
        /\ Go(line, IF l.ret = "raised" THEN "fatal"
                    ELSE IF l.items = <<>> THEN "startup_empty_pause"
                    ELSE "startup")
        /\ items' = IF l.ret = "raised" THEN <<>> ELSE l.items
        /\ UNCHANGED <<env, pick, cleanArgs>>
        /\ KeepSystem

\* menu_bench up to pause(): the three benchmarks in turn; the first that
\* raises ends the program.  bench_cpu() raises when its elapsed time is 0,
\* whatever its count.
MenuBench(line) ==
    \E failAt \in DiskFails, wt, rt, me, ce \in Elapsed :
        /\ tmpFile' = TmpAfter(tmpFile, failAt)
        /\ Go(line, IF \/ BenchDisk(50, failAt, wt, rt).raised
                       \/ BenchMem(200, me).raised
                       \/ Rate(1, ce).raised
                    THEN "fatal" ELSE "bench_pause")
        /\ KeepLocals
        /\ UNCHANGED <<powerVars, regVars, cleanVars, benchLast>>

MainSubmenu ==
    /\ loc = "main"
    /\ \E line \in {"1", "2", "5"} :
          Go(line, CASE line = "1" -> "tweaks" [] line = "2" -> "cleaner_days"
                     [] OTHER -> "power")
    /\ KeepLocals /\ KeepSystem

MainBench == loc = "main" /\ MenuBench("3")

MainStartup == loc = "main" /\ StartupHead("4")

\* 6) View Log: exists() and read_text() are outside every try.
MainViewLog ==
    /\ loc = "main"
    /\ \E readOk \in BOOLEAN : Go("6", IF readOk THEN "log_pause" ELSE "fatal")
    /\ KeepLocals /\ KeepSystem

MainOther ==
    /\ loc = "main"
    /\ \E line \in {"0", "x"} : Go(line, IF line = "0" THEN "exited" ELSE "main")
    /\ KeepLocals /\ KeepSystem

TweaksEnable ==
    /\ loc = "tweaks"
    /\ \E listOk, dupOk, actOk \in BOOLEAN : \E mode \in QueryModes, wmode \in WriteModes :
       \E r \in {EnableResult(active, ultimateListed, stateFile, listOk, dupOk, mode, wmode, actOk)} :
          active' = r.active /\ ultimateListed' = r.listed /\ stateFile' = r.file
    /\ Go("1", "tweaks_pause")
    /\ KeepLocals /\ UNCHANGED <<calls, regVars, cleanVars, benchVars>>

TweaksRestore ==
    /\ loc = "tweaks"
    /\ \E readOk, actOk \in BOOLEAN :
       \E r \in {RestoreResult(active, ultimateListed, stateFile, readOk, actOk)} :
          active' = r.active
    /\ Go("2", "tweaks_pause")
    /\ KeepLocals /\ UNCHANGED <<ultimateListed, stateFile, calls, regVars, cleanVars, benchVars>>

TweaksVisualFx ==
    /\ loc = "tweaks"
    /\ \E ok \in BOOLEAN : visualFx' = IF ok THEN 2 ELSE visualFx
    /\ Go("3", "tweaks_pause")
    /\ KeepLocals /\ UNCHANGED <<powerVars, reg, regLast, cleanVars, benchVars>>

TweaksOther ==
    /\ loc = "tweaks"
    /\ \E line \in {"0", "x"} : Go(line, IF line = "0" THEN "main" ELSE "tweaks")
    /\ KeepLocals /\ KeepSystem

TweaksPause ==
    /\ loc = "tweaks_pause"
    /\ Go("", TweaksAfterPause)
    /\ KeepLocals /\ KeepSystem

CleanerDays ==
    /\ loc = "cleaner_days"
    /\ \E line \in {"", "0", "1", "x"} :
          /\ Go(line, "cleaner_sys")
          /\ cleanArgs' = [cleanArgs EXCEPT !.days_i = ParseDays(line)]
    /\ UNCHANGED <<env, items, pick>> /\ KeepSystem

CleanerSys ==
    /\ loc = "cleaner_sys"
    /\ \E line \in {"", "n", "N"} :
          /\ Go(line, "cleaner_aggr")
          /\ cleanArgs' = [cleanArgs EXCEPT !.inc_sys = (Lower(line) # "n")]
    /\ UNCHANGED <<env, items, pick>> /\ KeepSystem

\* The third question, then clean_temp and the report.
CleanerAggr ==
    /\ loc = "cleaner_aggr"
    /\ \E line \in {"", "y", "Y"}, now \in Nows, fail \in [Files -> FailModes] :
       \E st \in {WalkTargets([fs |-> fs, freed |-> 0, deleted |-> {}, attempted |-> {},
                               subdirs |-> subdirs, raised |-> FALSE],
                              Targets(cleanArgs.inc_sys, Lower(line) = "y"), 1,
                              Cutoff(now, cleanArgs.days_i), fail)} :
          /\ fs' = st.fs /\ subdirs' = st.subdirs
          /\ Go(line, "cleaner_pause")
    /\ cleanArgs' = NoArgs
    /\ UNCHANGED <<env, items, pick>>
    /\ UNCHANGED <<powerVars, regVars, cleanLast, benchVars>>

\* pause() at the end of menu_cleaner, menu_bench, menu_power, of the log
\* view and of menu_startup's "No startup items found": back to menu_main.
PauseThenMain ==
    /\ loc \in {"cleaner_pause", "bench_pause", "power_pause", "log_pause",
                "startup_empty_pause"}
    /\ Go("", "main")
    /\ KeepLocals /\ KeepSystem

StartupChoice ==
    /\ loc = "startup"
    /\ \E line \in {"0", "a", "A", "b", "B"} :
          /\ Go(line, IF line = "0" THEN "main" ELSE "startup_item")
          /\ pick' = IF line = "0" THEN "" ELSE Lower(line)
          /\ items' = IF line = "0" THEN <<>> ELSE items
    /\ UNCHANGED <<env, cleanArgs>> /\ KeepSystem

\* Any other line: the loop starts over.
StartupOther == loc = "startup" /\ pick' = "" /\ StartupHead("x")

\* "Item # :" with a line that is no number or no index of items: continue.
StartupBadItem ==
    /\ loc = "startup_item"
    /\ \E line \in IntTokens \cup {"x"} :
          /\ line \in IntTokens => ~PyIndex(items, IntOf(line) - 1).ok
          /\ StartupHead(line)

StartupToggle ==
    /\ loc = "startup_item"
    /\ \E line \in IntTokens, stop \in ToggleStops :
          /\ PyIndex(items, IntOf(line) - 1).ok
          /\ \E t \in {ToggleResult(reg, PyIndex(items, IntOf(line) - 1).item[3],
                                    PyIndex(items, IntOf(line) - 1).item[1],
                                    pick = "a", stop)} :
                /\ reg' = t.reg
                /\ Go(line, IF t.ret = "raised" THEN "fatal" ELSE "startup_pause")
    /\ items' = <<>> /\ pick' = ""
    /\ UNCHANGED <<env, cleanArgs>>
    /\ UNCHANGED <<powerVars, visualFx, regLast, cleanVars, benchVars>>

StartupPause == loc = "startup_pause" /\ StartupHead("")

PowerEnable ==
    /\ loc = "power"
    /\ \E listOk, dupOk, actOk \in BOOLEAN : \E mode \in QueryModes, wmode \in WriteModes :
       \E r \in {EnableResult(active, ultimateListed, stateFile, listOk, dupOk, mode, wmode, actOk)} :
          active' = r.active /\ ultimateListed' = r.listed /\ stateFile' = r.file
    /\ Go("1", "power_pause")
    /\ KeepLocals /\ UNCHANGED <<calls, regVars, cleanVars, benchVars>>

PowerRestore ==
    /\ loc = "power"
    /\ \E readOk, actOk \in BOOLEAN :
       \E r \in {RestoreResult(active, ultimateListed, stateFile, readOk, actOk)} :
          active' = r.active
    /\ Go("2", "power_pause")
    /\ KeepLocals /\ UNCHANGED <<ultimateListed, stateFile, calls, regVars, cleanVars, benchVars>>

\* menu_power has no loop: any other line ends it.
PowerOther ==
    /\ loc = "power"
    /\ \E line \in {"0", "x"} : Go(line, "main")
    /\ KeepLocals /\ KeepSystem

\* Ctrl-C at a prompt.
Interrupt ==
    /\ loc \in Prompts
    /\ Go("^C", "interrupted")
    /\ KeepLocals /\ KeepSystem

MenuInit ==
    /\ loc = "import" /\ prevLoc = "import" /\ lastInput = ""
    /\ env \in [logDirOk : BOOLEAN, windows : BOOLEAN, isAdmin : BOOLEAN]
    /\ items = <<>> /\ pick = "" /\ cleanArgs = NoArgs

MenuIdle ==
    /\ loc = "import" /\ prevLoc = "import" /\ lastInput = ""
    /\ env = [logDirOk |-> TRUE, windows |-> TRUE, isAdmin |-> TRUE]
    /\ items = <<>> /\ pick = "" /\ cleanArgs = NoArgs

\* The machine the menus run on: Balanced active and no state file, one
\* startup entry in each hive, one old file in the temp directory.
MenuSystem ==
    /\ PowerIdle
    /\ reg = [h \in Hives |->
                [k \in Keys |->
                   IF k = ShadowKey THEN MissingKey
                   ELSE [exists |-> TRUE,
                         vals |-> [n \in Names |->
                                     IF h = "HKCU" /\ n = "OneDrive"
                                     THEN [data |-> "a.exe", type |-> "REG_SZ"]
                                     ELSE IF h = "HKLM" /\ n = "Steam"
                                     THEN [data |-> "%AppData%\\b.exe", type |-> "REG_EXPAND_SZ"]
                                     ELSE NoValue]]]]
    /\ visualFx = 0 /\ regLast = NoCall
    /\ fs = [f \in Files |-> IF f = 1 THEN [loc |-> LocalTemp, mtime |-> SecondsPerDay,
                                            size |-> SizeOf(1), present |-> TRUE]
                             ELSE NoFile]
    /\ subdirs = {} /\ cleanLast = NoClean
    /\ BenchInit

vars == <<powerVars, regVars, cleanVars, benchVars, menuVars>>

(***************************************************************************)
(* Specifications                                                          *)
(***************************************************************************)
\* The power plan functions called in any order.
InitPower == PowerInit /\ RegIdle /\ CleanIdle /\ BenchIdle /\ MenuIdle
NextPower ==
    \/ EnableUltimate /\ UNCHANGED <<regVars, cleanVars, benchVars, menuVars>>
    \/ RestorePower /\ UNCHANGED <<regVars, cleanVars, benchVars, menuVars>>
SpecPower == InitPower /\ [][NextPower]_vars

\* The registry functions called in any order.
InitRegistry == RegInit /\ PowerIdle /\ CleanIdle /\ BenchIdle /\ MenuIdle
NextRegistry ==
    \/ ToggleStartup /\ UNCHANGED <<powerVars, cleanVars, benchVars, menuVars>>
    \/ ListStartupItems /\ UNCHANGED <<powerVars, cleanVars, benchVars, menuVars>>
    \/ SetVisualFx /\ UNCHANGED <<powerVars, cleanVars, benchVars, menuVars>>
SpecRegistry == InitRegistry /\ [][NextRegistry]_vars

\* clean_temp called on any population of the temp directories.
InitClean == CleanInit /\ PowerIdle /\ RegIdle /\ BenchIdle /\ MenuIdle
NextClean == CleanTemp /\ UNCHANGED <<powerVars, regVars, benchVars, menuVars>>
SpecClean == InitClean /\ [][NextClean]_vars

\* The benchmarks called in any order.
InitBench == BenchInit /\ PowerIdle /\ RegIdle /\ CleanIdle /\ MenuIdle
NextBench ==
    \/ BenchDiskCall /\ UNCHANGED <<powerVars, regVars, cleanVars, menuVars>>
    \/ BenchMemCall /\ UNCHANGED <<powerVars, regVars, cleanVars, menuVars>>
    \/ BenchCpuCall /\ UNCHANGED <<powerVars, regVars, cleanVars, menuVars>>
SpecBench == InitBench /\ [][NextBench]_vars

\* The program from its start, driven by the user's lines.
InitMenu == MenuInit /\ MenuSystem
NextMenu ==
    \/ Startup
    \/ MainSubmenu \/ MainBench \/ MainStartup \/ MainViewLog \/ MainOther
    \/ TweaksEnable \/ TweaksRestore \/ TweaksVisualFx \/ TweaksOther \/ TweaksPause
    \/ CleanerDays \/ CleanerSys \/ CleanerAggr
    \/ PauseThenMain
    \/ StartupChoice \/ StartupOther \/ StartupBadItem \/ StartupToggle \/ StartupPause
    \/ PowerEnable \/ PowerRestore \/ PowerOther
    \/ Interrupt
SpecMenu == InitMenu /\ [][NextMenu]_vars

(***************************************************************************)
(* Properties: power plan (SpecPower)                                      *)
(***************************************************************************)
LastCall == calls[Len(calls)]
EnableThenRestore ==
    Len(calls) = 2 /\ calls[1].fn = "enable" /\ calls[2].fn = "restore"

\* C1 as stated: enable_ultimate() followed immediately by restore_power()
\* leaves active the scheme that was active before enable_ultimate(), whatever
\* the outcome of the query, of the state file write and of the activations.
\* (After two enables in a row the scheme before the second one is Ultimate.)
C1_SingleUndoEveryOutcome ==
    EnableThenRestore => active = calls[1].pre

\* C1 amended: when enable_ultimate() parsed the active scheme and wrote the
\* state file, and restore_power() returned True (its activation command
\* succeeded), the scheme active after restore_power() is the one that was
\* active before enable_ultimate().  When enable_ultimate() did not write the
\* record, the state file is as it was or empty, and a restore_power() that
\* returns True has activated the scheme the file records; a restore_power()
\* that returns False leaves the active scheme as enable_ultimate() left it.
C1_SingleUndo ==
    EnableThenRestore =>
        /\ (calls[1].saved /\ calls[2].ret) => active = calls[1].pre
        /\ ~calls[1].saved =>
              calls[2].preFile \in {calls[1].preFile, [exists |-> TRUE, text |-> <<>>]}
        /\ calls[2].ret => calls[2].issued = {active}
        /\ ~calls[2].ret => active = calls[2].pre

\* An enable that replaced an older record of another scheme and activated
\* Ultimate, then a restore that brought the earlier scheme back.
C1_Witness ==
    /\ EnableThenRestore /\ calls[1].saved /\ calls[1].ret /\ calls[2].ret
    /\ calls[1].pre = HIGHPERF_GUID /\ calls[2].pre = POWER_ULTIMATE_GUID
    /\ calls[1].preFile.exists /\ calls[1].preFile.text # stateFile.text
    /\ active = HIGHPERF_GUID

\* C2: with no state file, restore_power() returns False, issues no
\* /setactive command and leaves the active scheme as it was.
C2_RestoreWithoutState ==
    (calls # <<>> /\ LastCall.fn = "restore" /\ ~LastCall.preFile.exists)
        => (~LastCall.ret /\ LastCall.issued = {} /\ active = LastCall.pre)

C2_Witness ==
    /\ calls # <<>> /\ LastCall.fn = "restore" /\ ~LastCall.preFile.exists
    /\ ~LastCall.ret /\ active = HIGHPERF_GUID

(***************************************************************************)
(* Properties: startup manager (SpecRegistry)                              *)
(***************************************************************************)
Live(h, n)   == reg[h][RunKey].vals[n]
Shadow(h, n) == reg[h][ShadowKey].vals[n]

\* The last call is the enable of a disable/enable pair on one (hive, name),
\* the disable having returned True.
RoundTrip == regLast.fn = "toggle" /\ ~regLast.disable /\ regLast.orig # NoValue

\* C3: toggle_startup(name, hive, disable=True) followed by
\* toggle_startup(name, hive, disable=False), both running to their return,
\* leaves the name in the live Run key with the original data and type and no
\* value of that name in the shadow key, whatever the shadow key held before;
\* and the second call finds the value (it does not return False).
C3_ToggleRoundTrip ==
    RoundTrip =>
        /\ regLast.ret # "False"
        /\ regLast.ret = "True" =>
              /\ Live(regLast.hive, regLast.name) = regLast.orig
              /\ Shadow(regLast.hive, regLast.name) = NoValue

\* A round trip of an entry of type REG_EXPAND_SZ over a shadow key that held
\* another value under the same name.
C3_Witness ==
    /\ RoundTrip /\ regLast.ret = "True"
    /\ regLast.orig.type = "REG_EXPAND_SZ"
    /\ regLast.prior # NoValue /\ regLast.prior # regLast.orig
    /\ Live(regLast.hive, regLast.name) = regLast.orig

\* What list_startup_items returns when a hive that cannot be opened counts
\* for zero entries.
ItemsSkipping(denied) ==
    (IF "HKCU" \in denied THEN <<>> ELSE HiveItems(reg, "HKCU")) \o
    (IF "HKLM" \in denied THEN <<>> ELSE HiveItems(reg, "HKLM"))

\* C7: no registry failure leaves a function as an exception: a toggle that
\* meets one returns False, set_visual_fx_best_performance returns False, and
\* list_startup_items returns the entries of the hives it could open.
C7_RegistryFailuresAreValues ==
    /\ regLast.ret # "raised"
    /\ (regLast.fn = "toggle" /\ regLast.stop # "none") => regLast.ret = "False"
    /\ regLast.fn = "list" => regLast.items = ItemsSkipping(regLast.denied)

\* C10: a toggle that read (value, vtype) from the source key leaves that
\* entry in the live key or in the shadow key wherever it stops, and a stop
\* between the copy and the delete leaves it in both.
C10_NeverLost ==
    (regLast.fn = "toggle" /\ regLast.entry # NoValue) =>
        /\ \/ Live(regLast.hive, regLast.name) = regLast.entry
           \/ Shadow(regLast.hive, regLast.name) = regLast.entry
        /\ regLast.stop \in {"reopen", "delete"} =>
              /\ Live(regLast.hive, regLast.name) = regLast.entry
              /\ Shadow(regLast.hive, regLast.name) = regLast.entry

\* A disable stopped between SetValueEx and DeleteValue.
C10_Witness ==
    /\ regLast.fn = "toggle" /\ regLast.disable /\ regLast.stop = "reopen"
    /\ regLast.entry # NoValue
    /\ Live(regLast.hive, regLast.name) = regLast.entry
    /\ Shadow(regLast.hive, regLast.name) = regLast.entry

(***************************************************************************)
(* Properties: temp cleaner (SpecClean)                                    *)
(***************************************************************************)
RECURSIVE SumSizes(_)
SumSizes(S) ==
    IF S = {} THEN 0
    ELSE LET f == CHOOSE x \in S : TRUE IN fs[f].size + SumSizes(S \ {f})

\* C4: clean_temp does not raise whichever files fail to stat, chmod or
\* delete; a file that fails is passed over and stays, every other attempted
\* file is deleted, and the total is the sum of the sizes of the deleted files.
C4_SkipAndTotal ==
    cleanLast.fn = "clean" =>
        /\ ~cleanLast.raised
        /\ cleanLast.freed = SumSizes(cleanLast.deleted)
        /\ cleanLast.deleted = {f \in cleanLast.before : ~fs[f].present}
        /\ \A f \in cleanLast.before :
              /\ cleanLast.fail[f] # "none" => f \notin cleanLast.deleted
              /\ (cleanLast.fail[f] = "none" /\ f \in cleanLast.attempted)
                    => f \in cleanLast.deleted

\* File 1 could not be unlinked and stays; file 2, next in the same directory,
\* was deleted and is all the total counts.
C4_Witness ==
    /\ cleanLast.fn = "clean" /\ cleanLast.before = {1, 2}
    /\ fs[1].loc = fs[2].loc
    /\ cleanLast.fail[1] = "unlink" /\ 1 \in cleanLast.attempted /\ fs[1].present
    /\ cleanLast.deleted = {2} /\ cleanLast.freed = fs[2].size

\* The cutoff of the claim: now - older_days days.
ClaimedCutoff == cleanLast.now - cleanLast.older_days * SecondsPerDay

\* C5: with older_days = 0 the deletion of every file under the target
\* directories is attempted; with older_days > 0 the deletion of a file (whose
\* modification time can be read) is attempted exactly when that time is not
\* later than now - older_days days, and no newer file is deleted.
C5_Eligibility ==
    cleanLast.fn = "clean" =>
        /\ cleanLast.older_days = 0 => cleanLast.attempted = cleanLast.before
        /\ cleanLast.older_days > 0 =>
              /\ \A f \in cleanLast.before : cleanLast.fail[f] # "stat" =>
                    (f \in cleanLast.attempted <=> fs[f].mtime <= ClaimedCutoff)
              /\ \A f \in cleanLast.deleted : fs[f].mtime <= ClaimedCutoff

\* The rule of C5 where the cutoff is not 0.
EligibilityAwayFromZero ==
    (cleanLast.fn = "clean" /\ ClaimedCutoff # 0) => C5_Eligibility

(***************************************************************************)
(* Properties: benchmarks (SpecBench)                                      *)
(***************************************************************************)
\* C9: a benchmark called with a non-zero workload size does not raise and
\* returns a strictly positive finite rate, whatever the elapsed times
\* measured, and bench_disk leaves no corzz_bench.tmp behind on any path.
C9_BenchmarksPositive ==
    (benchLast.fn # "none" /\ benchLast.size # 0) =>
        /\ ~benchLast.raised
        /\ benchLast.num > 0 /\ benchLast.den > 0
        /\ benchLast.fn = "disk" => ~tmpFile

(***************************************************************************)
(* Properties: start of the program and menus                              *)
(***************************************************************************)
\* C6: logging failures never propagate: with a log directory that cannot
\* be created the program still starts, that is, it gets past loading to
\* main() as it would with a working log.
C6_LoggingNeverPropagates ==
    (prevLoc = "import" /\ loc # "import") =>
        loc = IF env.windows /\ env.isAdmin THEN "main" ELSE "exited"

\* The prompts of the five submenus.
SubmenuLocs == {"tweaks", "tweaks_pause", "cleaner_days", "cleaner_sys",
                "cleaner_aggr", "cleaner_pause", "bench_pause", "startup",
                "startup_item", "startup_pause", "startup_empty_pause",
                "power", "power_pause"}

\* C8 as stated: control returns from a submenu to the top-level menu only
\* when the user selects back ("0"); after an action the submenu's prompt is
\* shown again.
C8_SubmenusLoopUntilBack ==
    (loc = "main" /\ prevLoc \in SubmenuLocs) => lastInput = "0"

\* C8 amended: menu_tweaks shows its prompt again after every action and
\* returns to the top-level menu only on "0"; menu_startup lists again after
\* every action and returns only on "0" or after the pause that follows an
\* empty list; menu_cleaner, menu_bench and menu_power run one pass and
\* return to the top-level menu after their pause, menu_power at once on a
\* line other than "1" and "2".  An interrupt or an exception of the action
\* ends the program instead.
C8_MenuLoops ==
    /\ prevLoc = "tweaks_pause" => loc \in {"tweaks", "interrupted"}
    /\ prevLoc = "tweaks" =>
          \/ lastInput = "0" /\ loc = "main"
          \/ lastInput = "x" /\ loc = "tweaks"
          \/ lastInput \in {"1", "2", "3"} /\ loc = "tweaks_pause"
          \/ lastInput = "^C" /\ loc = "interrupted"
    /\ (loc = "main" /\ prevLoc \in {"startup", "startup_item", "startup_pause",
                                     "startup_empty_pause"}) =>
          \/ prevLoc = "startup" /\ lastInput = "0"
          \/ prevLoc = "startup_empty_pause"
    /\ prevLoc = "startup_pause" =>
          loc \in {"startup", "startup_empty_pause", "fatal", "interrupted"}
    /\ (loc = "startup_empty_pause") =>
          Len(ListResult(reg, {}).items) = 0
    /\ prevLoc \in {"cleaner_pause", "bench_pause", "power_pause"} =>
          loc \in {"main", "interrupted"}
    /\ prevLoc \in {"cleaner_days", "cleaner_sys"} =>
          loc \in {"cleaner_sys", "cleaner_aggr", "interrupted"}
    /\ prevLoc = "cleaner_aggr" => loc \in {"cleaner_pause", "interrupted"}
    /\ prevLoc = "power" =>
          \/ lastInput \in {"1", "2"} /\ loc = "power_pause"
          \/ lastInput \in {"0", "x"} /\ loc = "main"
          \/ lastInput = "^C" /\ loc = "interrupted"

\* The tweaks prompt shown again after Ultimate Performance was enabled from
\* it.
C8_Witness ==
    /\ loc = "tweaks" /\ prevLoc = "tweaks_pause"
    /\ active = POWER_ULTIMATE_GUID /\ stateFile.exists

=============================================================================
